---------------------------- MODULE Spec2Model ----------------------------
(***************************************************************************)
(* Model of the generic Firestore data-access layer of api-work            *)
(* (StorageGet, StorageNewId, StorageCount, StorageSync, StorageSyncList,  *)
(* StorageDelete, StorageList, StorageSum, filter, order, searchify) and   *)
(* of the request handler of its HTTP server (makeHandler).                *)
(*                                                                         *)
(* Go strings are sequences of one-character strings (code points).        *)
(* float64 values are modelled by integers: every numeric literal of the   *)
(* model is an integer literal, so no rounding is involved.                *)
(***************************************************************************)
EXTENDS Integers, Sequences, FiniteSets, TLC

VARIABLES store, pc, op, res, calls, routes, arrays, reqs, served

\* the state of the HTTP server
serverVars == <<routes, arrays, reqs, served>>

\* the state of the storage layer and its caller
storageVars == <<store, pc, op, res, calls>>

vars == <<store, pc, op, res, calls, routes, arrays, reqs, served>>

(***************************************************************************)
(* Bounds                                                                  *)
(***************************************************************************)
MaxDocs == 3
MaxPage == 1
MaxPageSize == 2
MaxTermLen == 3
MaxTerms == 2
MaxFilterLen == 2
MaxRequests == 3

(***************************************************************************)
(* Characters                                                              *)
(***************************************************************************)
DigitChars == <<"0", "1", "2", "3", "4", "5", "6", "7", "8", "9">>

UpperChars == <<"A", "B", "C", "D", "E", "F", "G", "H", "I", "J", "K", "L", "M",
                "N", "O", "P", "Q", "R", "S", "T", "U", "V", "W", "X", "Y", "Z">>

LowerChars == <<"a", "b", "c", "d", "e", "f", "g", "h", "i", "j", "k", "l", "m",
                "n", "o", "p", "q", "r", "s", "t", "u", "v", "w", "x", "y", "z">>

\* The characters of the model in code-point order.
CodeOrder == <<" ", "+", "-">> \o DigitChars \o <<"<", ">">> \o UpperChars \o <<"[", "]">>
             \o LowerChars

Range(s) == {s[i] : i \in DOMAIN s}

IsDigit(c) == c \in Range(DigitChars)

DigitVal(c) == (CHOOSE i \in DOMAIN DigitChars : DigitChars[i] = c) - 1

CodePoint(c) == CHOOSE i \in DOMAIN CodeOrder : CodeOrder[i] = c

\* unicode.ToLower on one code point
ToLowerRune(c) ==
    IF c \in Range(UpperChars)
    THEN LowerChars[CHOOSE i \in DOMAIN UpperChars : UpperChars[i] = c]
    ELSE c

\* strings.ToLower
ToLower(s) == [i \in DOMAIN s |-> ToLowerRune(s[i])]

\* Go's string comparison: byte-wise lexicographic
RECURSIVE StrLess(_, _)
StrLess(a, b) ==
    IF Len(b) = 0 THEN FALSE
    ELSE IF Len(a) = 0 THEN TRUE
    ELSE IF a[1] # b[1] THEN CodePoint(a[1]) < CodePoint(b[1])
    ELSE StrLess(Tail(a), Tail(b))

AllDigits(s) == Len(s) > 0 /\ \A i \in DOMAIN s : IsDigit(s[i])

RECURSIVE DecVal(_)
DecVal(s) == IF Len(s) = 0 THEN 0
             ELSE 10 * DecVal(SubSeq(s, 1, Len(s) - 1)) + DigitVal(s[Len(s)])

(***************************************************************************)
(* Coercions used by filter and StorageSum                                 *)
(***************************************************************************)
\* strconv.ParseBool
ParseBool(s) ==
    IF s \in {<<"1">>, <<"t">>, <<"T">>, <<"T", "R", "U", "E">>,
              <<"t", "r", "u", "e">>, <<"T", "r", "u", "e">>}
    THEN [ok |-> TRUE, v |-> TRUE]
    ELSE IF s \in {<<"0">>, <<"f">>, <<"F">>, <<"F", "A", "L", "S", "E">>,
                   <<"f", "a", "l", "s", "e">>, <<"F", "a", "l", "s", "e">>}
    THEN [ok |-> TRUE, v |-> FALSE]
    ELSE [ok |-> FALSE, v |-> FALSE]

\* strconv.ParseFloat(s, 64) on the strings of the model: an optional sign
\* followed by decimal digits.  The strings of the model hold no ".", no
\* exponent, no hexadecimal prefix and none of the words inf, infinity, nan.
ParseFloat(s) ==
    LET signed == Len(s) > 0 /\ s[1] \in {"+", "-"}
        body   == IF signed THEN Tail(s) ELSE s
        neg    == signed /\ s[1] = "-"
    IN  IF AllDigits(body)
        THEN [ok |-> TRUE, v |-> IF neg THEN 0 - DecVal(body) ELSE DecVal(body)]
        ELSE [ok |-> FALSE, v |-> 0]

IsLeap(y) == (y % 4 = 0 /\ y % 100 # 0) \/ y % 400 = 0

DaysIn(y, m) == IF m = 2 THEN (IF IsLeap(y) THEN 29 ELSE 28)
                ELSE IF m \in {4, 6, 9, 11} THEN 30 ELSE 31

\* time.Parse("2006-01-02", s): four digits, "-", two digits, "-", two digits,
\* nothing after them, the month in 1..12 and the day valid for the month.
\* The time is modelled by the number yyyymmdd, which orders as the time does.
ParseDate(s) ==
    LET shape == /\ Len(s) = 10
                 /\ s[5] = "-" /\ s[8] = "-"
                 /\ \A i \in {1, 2, 3, 4, 6, 7, 9, 10} : IsDigit(s[i])
        y == DecVal(SubSeq(s, 1, 4))
        m == DecVal(SubSeq(s, 6, 7))
        d == DecVal(SubSeq(s, 9, 10))
    IN  IF shape /\ m \in 1..12 /\ d >= 1 /\ d <= DaysIn(y, m)
        THEN [ok |-> TRUE, v |-> y * 10000 + m * 100 + d]
        ELSE [ok |-> FALSE, v |-> 0]

(***************************************************************************)
(* Values of document fields                                               *)
(***************************************************************************)
Missing == [t |-> "none", v |-> 0]
BoolV(b) == [t |-> "bool", v |-> b]
NumV(n) == [t |-> "num", v |-> n]
TimeV(n) == [t |-> "time", v |-> n]
StrV(s) == [t |-> "str", v |-> s]
ArrV(a) == [t |-> "arr", v |-> a]

BOOLEAN_T == "boolean"
NUMBER_T == "number"
DATE_T == "timestamp"
STRING_T == "string"

(***************************************************************************)
(* filter: the query refined by one Where per filter whose value coerces   *)
(***************************************************************************)
BaseQuery == [wheres |-> <<>>, orders |-> <<>>, limit |-> -1, offset |-> 0]

Where(query, field, oper, value) ==
    [query EXCEPT !.wheres = Append(@, [Field |-> field, Op |-> oper, Val |-> value])]

\* FilterStep with a number that fails to parse sent as the raw string
FilterStep_RawOnFailure(query, f) ==
    CASE f.Type = BOOLEAN_T ->
            IF ParseBool(f.Value).ok
            THEN Where(query, f.Field, f.Operator, BoolV(ParseBool(f.Value).v))
            ELSE query
      [] f.Type = NUMBER_T ->
            IF ParseFloat(f.Value).ok
            THEN Where(query, f.Field, f.Operator, NumV(ParseFloat(f.Value).v))
            ELSE Where(query, f.Field, f.Operator, StrV(f.Value))
      [] f.Type = DATE_T ->
            IF ParseDate(f.Value).ok
            THEN Where(query, f.Field, f.Operator, TimeV(ParseDate(f.Value).v))
            ELSE query
      [] OTHER -> Where(query, f.Field, f.Operator, StrV(f.Value))

FilterStep(query, f) ==
    CASE f.Type = BOOLEAN_T ->
            IF ParseBool(f.Value).ok
            THEN Where(query, f.Field, f.Operator, BoolV(ParseBool(f.Value).v))
            ELSE query
      [] f.Type = NUMBER_T ->
            IF ParseFloat(f.Value).ok
            THEN Where(query, f.Field, f.Operator, NumV(ParseFloat(f.Value).v))
            ELSE query
      [] f.Type = DATE_T ->
            IF ParseDate(f.Value).ok
            THEN Where(query, f.Field, f.Operator, TimeV(ParseDate(f.Value).v))
            ELSE query
      [] OTHER -> Where(query, f.Field, f.Operator, StrV(f.Value))

RECURSIVE filter(_, _)
filter(query, filters) ==
    IF Len(filters) = 0 THEN query
    ELSE filter(FilterStep(query, Head(filters)), Tail(filters))

(***************************************************************************)
(* searchify                                                               *)
(***************************************************************************)
\* the inner loop: start := 0; start <= len(runes)-length; start++
RECURSIVE SubstringsFrom(_, _, _)
SubstringsFrom(runes, length, start) ==
    IF start <= Len(runes) - length
    THEN <<SubSeq(runes, start + 1, start + length)>>
         \o SubstringsFrom(runes, length, start + 1)
    ELSE <<>>

\* SubstringsOfLength with the bound length <= len(runes)
RECURSIVE SubstringsOfLength_Inclusive(_, _)
SubstringsOfLength_Inclusive(runes, length) ==
    IF length <= Len(runes)
    THEN SubstringsFrom(runes, length, 0) \o SubstringsOfLength_Inclusive(runes, length + 1)
    ELSE <<>>

\* the outer loop: length := 2; length < len(runes); length++
RECURSIVE SubstringsOfLength(_, _)
SubstringsOfLength(runes, length) ==
    IF length < Len(runes)
    THEN SubstringsFrom(runes, length, 0) \o SubstringsOfLength(runes, length + 1)
    ELSE <<>>

RECURSIVE searchify(_)
searchify(terms) ==
    IF Len(terms) = 0 THEN <<>>
    ELSE LET item == Head(terms)
             low  == ToLower(item)
         IN  (IF Len(item) > 0
              THEN <<low>> \o SubstringsOfLength(low, 2)
              ELSE <<>>) \o searchify(Tail(terms))


(***************************************************************************)
(* The backend: a collection of documents and the queries run against it   *)
(***************************************************************************)
Fields == {"Id", "Name", "N", "Raw"}

\* the collection: the documents that exist, by identifier
Exists(st, id) == id \in DOMAIN st

Put(st, id, doc) == [i \in DOMAIN st \cup {id} |-> IF i = id THEN doc ELSE st[i]]

Remove(st, id) == [i \in DOMAIN st \ {id} |-> st[i]]

EmptyStore == [i \in {} |-> Missing]

IdStr(i) == <<DigitChars[i + 1]>>

DocIds == {IdStr(i) : i \in 1..MaxDocs}

FieldOf(doc, f) == IF f \in DOMAIN doc THEN doc[f] ELSE Missing

\* The operators of the source, passed verbatim to Query.Where
LESS == "<"
LESSEQUAL == "<="
EQUAL == "=="
GREATER == ">"
GREATEREQUAL == ">="
NOTEQUAL == "!="
ARRAYCONTAINS == "array-contains"

ValEq(a, b) == a.t = b.t /\ a.v = b.v

\* the backend's order inside one type
ValLess(a, b) ==
    CASE a.t = "str"  -> StrLess(a.v, b.v)
      [] a.t = "bool" -> (~a.v) /\ b.v
      [] a.t \in {"num", "time"} -> a.v < b.v
      [] OTHER -> FALSE

\* the backend's order across types
TypeRank(t) ==
    CASE t = "none" -> 0 [] t = "bool" -> 1 [] t = "num" -> 2
      [] t = "time" -> 3 [] t = "str" -> 4 [] OTHER -> 5

\* one Where clause against one field value: a document without the field
\* matches nothing, inequalities match values of the operand's type only
Matches(v, oper, w) ==
    IF v.t = "none" THEN FALSE
    ELSE CASE oper = EQUAL -> ValEq(v, w)
           [] oper = NOTEQUAL -> ~ValEq(v, w)
           [] oper = LESS -> v.t = w.t /\ ValLess(v, w)
           [] oper = LESSEQUAL -> v.t = w.t /\ (ValLess(v, w) \/ ValEq(v, w))
           [] oper = GREATER -> v.t = w.t /\ ValLess(w, v)
           [] oper = GREATEREQUAL -> v.t = w.t /\ (ValLess(w, v) \/ ValEq(v, w))
           [] oper = ARRAYCONTAINS ->
                 v.t = "arr" /\ w.t = "str" /\ \E i \in DOMAIN v.v : v.v[i] = w.v

DocMatches(doc, wheres) ==
    \A i \in DOMAIN wheres :
        Matches(FieldOf(doc, wheres[i].Field), wheres[i].Op, wheres[i].Val)

\* OrderBy leaves out the documents that lack the field
HasOrderFields(doc, orders) ==
    \A i \in DOMAIN orders : FieldOf(doc, orders[i].Field).t # "none"

KeyLess(a, b) ==
    IF a.t # b.t THEN TypeRank(a.t) < TypeRank(b.t) ELSE ValLess(a, b)

\* a before b under the sort keys, ties broken by document id in the
\* direction of the last key
RECURSIVE DocBefore(_, _, _, _, _)
DocBefore(st, orders, a, b, desc) ==
    IF Len(orders) = 0
    THEN IF desc THEN StrLess(b, a) ELSE StrLess(a, b)
    ELSE LET o  == Head(orders)
             ka == FieldOf(st[a], o.Field)
             kb == FieldOf(st[b], o.Field)
         IN  IF ValEq(ka, kb) THEN DocBefore(st, Tail(orders), a, b, o.Descending)
             ELSE IF o.Descending THEN KeyLess(kb, ka) ELSE KeyLess(ka, kb)

RECURSIVE SortIds(_, _, _)
SortIds(st, orders, ids) ==
    IF ids = {} THEN <<>>
    ELSE LET first == CHOOSE a \in ids :
                          \A b \in ids \ {a} : DocBefore(st, orders, a, b, FALSE)
         IN  <<first>> \o SortIds(st, orders, ids \ {first})

\* the documents of the collection a query selects, before limit and offset
Selected(st, query) ==
    SortIds(st, query.orders,
            {i \in DOMAIN st : /\ DocMatches(st[i], query.wheres)
                               /\ HasOrderFields(st[i], query.orders)})

\* Query.Documents(ctx).GetAll(): the snapshots, or nil when the call fails
Documents(st, query, failed) ==
    IF failed THEN <<>>
    ELSE LET all  == Selected(st, query)
             skip == IF query.offset > 0 THEN query.offset ELSE 0
             rest == SubSeq(all, skip + 1, Len(all))
             page == IF query.limit >= 0 /\ query.limit < Len(rest)
                     THEN SubSeq(rest, 1, query.limit) ELSE rest
         IN  [i \in DOMAIN page |-> [Ref |-> page[i], Data |-> st[page[i]]]]

\* AggregationQuery.Get with WithCount("count"): the result map, nil on failure
AggregationGet(st, query, failed) ==
    IF failed THEN [isNil |-> TRUE, count |-> 0]
    ELSE [isNil |-> FALSE, count |-> Len(Documents(st, query, FALSE))]

Panic == [kind |-> "panic"]
Return(v) == [kind |-> "return", val |-> v]

\* count: r["count"].(*firestorepb.Value) on a nil result map asserts the
\* type of a nil interface, which panics
count(st, query, failed) ==
    LET r == AggregationGet(st, query, failed)
    IN  IF r.isNil THEN Panic ELSE Return(r.count)

RECURSIVE order(_, _)
order(query, orders) ==
    IF Len(orders) = 0 THEN query
    ELSE order([query EXCEPT !.orders = Append(@, Head(orders))], Tail(orders))

Limit(query, n) == [query EXCEPT !.limit = n]
Offset(query, n) == [query EXCEPT !.offset = n]


(***************************************************************************)
(* The entity type T: a Record (Id, Raw) with a Name and a number N.       *)
(* DocId() is the Id, Searchify() is the Name.                             *)
(***************************************************************************)
ZeroT == [Id |-> <<>>, Name |-> <<>>, N |-> 0, Raw |-> <<>>]

DocId(entity) == entity.Id

Searchify(entity) == <<entity.Name>>

\* the document DocumentRef.Set(ctx, entity) writes: every field of the struct
ToDoc(entity) ==
    [Id |-> StrV(entity.Id), Name |-> StrV(entity.Name),
     N |-> NumV(entity.N), Raw |-> ArrV(entity.Raw)]

\* the type a field of T takes from a document value
FieldType(f) == CASE f = "N" -> "num" [] f = "Raw" -> "arr" [] OTHER -> "str"

Decodes(doc, f) == doc[f].t \in {"none", FieldType(f)}

\* DataTo sets the struct's fields one by one, in the order of a Go map
\* iteration, and stops at the first value of the wrong type: the entity it
\* leaves behind holds any subset of the fields that decode
DataTo(doc) ==
    LET good == {f \in Fields : doc[f].t = FieldType(f)}
        fill(S) == [f \in Fields |-> IF f \in S THEN doc[f].v ELSE ZeroT[f]]
    IN  IF \A f \in Fields : Decodes(doc, f)
        THEN {[err |-> FALSE, entity |-> fill(good)]}
        ELSE {[err |-> TRUE, entity |-> fill(S)] : S \in SUBSET good}

\* the loop of StorageList over the snapshots: a fresh entity per document,
\* a document that fails to decode is skipped
RECURSIVE DecodeAll(_)
DecodeAll(snap) ==
    IF Len(snap) = 0 THEN <<>>
    ELSE LET d == CHOOSE r \in DataTo(Head(snap).Data) : TRUE
         IN  (IF d.err THEN <<>> ELSE <<d.entity>>) \o DecodeAll(Tail(snap))

\* fmt.Sprintf("%v", n) for an integral number
RECURSIVE FormatNat(_)
FormatNat(n) == IF n < 10 THEN <<DigitChars[n + 1]>>
                ELSE FormatNat(n \div 10) \o <<DigitChars[(n % 10) + 1]>>

RECURSIVE JoinSpace(_)
JoinSpace(a) == IF Len(a) = 0 THEN <<>>
                ELSE IF Len(a) = 1 THEN a[1]
                ELSE a[1] \o <<" ">> \o JoinSpace(Tail(a))

\* fmt.Sprintf("%v", v) for the value doc.Data()[field]
Sprintf(v) ==
    CASE v.t = "none" -> <<"<", "n", "i", "l", ">">>
      [] v.t = "num"  -> IF v.v < 0 THEN <<"-">> \o FormatNat(0 - v.v) ELSE FormatNat(v.v)
      [] v.t = "str"  -> v.v
      [] v.t = "bool" -> IF v.v THEN <<"t", "r", "u", "e">> ELSE <<"f", "a", "l", "s", "e">>
      [] v.t = "arr"  -> <<"[">> \o JoinSpace(v.v) \o <<"]">>

\* SumLoop that gives up at the first value that is no number
RECURSIVE SumLoop_StopsAtNonNumeric(_, _, _)
SumLoop_StopsAtNonNumeric(snap, field, sum) ==
    IF Len(snap) = 0 THEN sum
    ELSE LET v  == FieldOf(Head(snap).Data, field)
             v2 == ParseFloat(Sprintf(v))
         IN  IF v2.ok
             THEN SumLoop_StopsAtNonNumeric(Tail(snap), field, sum + v2.v)
             ELSE sum

\* the loop of StorageSum over the snapshots
RECURSIVE SumLoop(_, _, _)
SumLoop(snap, field, sum) ==
    IF Len(snap) = 0 THEN sum
    ELSE LET v  == FieldOf(Head(snap).Data, field)
             v2 == ParseFloat(Sprintf(v))
         IN  SumLoop(Tail(snap), field, IF v2.ok THEN sum + v2.v ELSE sum)


(***************************************************************************)
(* Inputs                                                                  *)
(***************************************************************************)
Names == {<<"A", "b", "c">>}

Nums == {1, 2}

RawInputs == {<<>>, << <<"z", "z">> >>}

Entities == [Id : DocIds, Name : Names, N : Nums, Raw : RawInputs]

Flt(field, oper, type, value) ==
    [Field |-> field, Operator |-> oper, Type |-> type, Value |-> value]

FilterLists ==
    { <<>>,
      <<Flt("N", EQUAL, NUMBER_T, <<"z">>), Flt("N", GREATEREQUAL, NUMBER_T, <<"2">>)>>,
      <<Flt("N", EQUAL, STRING_T, <<"2">>)>>,
      <<Flt("N", EQUAL, NUMBER_T, <<"9">>)>> }

OrderLists ==
    { <<>>,
      <<[Field |-> "Name", Descending |-> FALSE], [Field |-> "N", Descending |-> TRUE]>> }

Payloads ==
    [Page : 0..MaxPage, PageSize : -1..MaxPageSize,
     Filters : FilterLists, Orders : OrderLists]

SyncFields == {"N"}

SyncValues == {<<"2">>, <<"z">>}

SumFields == {"N", "X"}

BackendErrors == {"unavailable"}

\* inputs of filter
FilterTypes == {BOOLEAN_T, NUMBER_T, DATE_T, STRING_T, "other"}

FilterValues ==
    { <<>>, <<"1">>, <<"z">>, <<"-", "2">>, <<"t", "r", "u", "e">>,
      <<"2", "0", "2", "4", "-", "0", "2", "-", "2", "9">>,
      <<"2", "0", "2", "3", "-", "0", "2", "-", "2", "9">> }

FilterPool ==
    {Flt("N", EQUAL, t, v) : t \in FilterTypes, v \in FilterValues}

SeqsUpTo(S, n) == UNION {[1..k -> S] : k \in 0..n}

FilterInputs == SeqsUpTo(FilterPool, MaxFilterLen)

\* inputs of searchify
TermChars == {"A", "b"}

Terms == SeqsUpTo(TermChars, MaxTermLen) \cup {<<"A", "b", "c", "d">>}

TermLists == SeqsUpTo(Terms, MaxTerms)

NoError == "nil"

(***************************************************************************)
(* Storage operations: the result, the store afterwards and the backend    *)
(* calls made.  fail names the backend call that fails, "" for none.       *)
(***************************************************************************)
Outcome(r, st, cs) == [res |-> r, store |-> st, calls |-> cs]

StorageGet(st, id, fail) ==
    IF fail = "get" \/ ~Exists(st, id)
    THEN {Outcome(Return(ZeroT), st, <<"get">>)}
    ELSE {Outcome(Return(d.entity), st, <<"get">>) : d \in DataTo(st[id])}

StorageCount(st, filters, fail) ==
    LET query == filter(BaseQuery, filters)
    IN  Outcome(count(st, query, fail = "aggregate"), st, <<"aggregate">>)

\* StorageSync that writes the entity with the Raw the caller gave
StorageSync_KeepsRaw(st, entity, fail) ==
    IF fail \in BackendErrors
    THEN Outcome(Return(fail), st, <<"set">>)
    ELSE Outcome(Return(NoError), Put(st, DocId(entity), ToDoc(entity)), <<"set">>)

StorageSync(st, entity, fail) ==
    LET synced == [entity EXCEPT !.Raw = searchify(Searchify(entity))]
    IN  IF fail \in BackendErrors
        THEN Outcome(Return(fail), st, <<"set">>)
        ELSE Outcome(Return(NoError),
                     Put(st, DocId(entity), ToDoc(synced)), <<"set">>)

RECURSIVE BatchSet(_, _, _, _)
BatchSet(st, snap, field, value) ==
    IF Len(snap) = 0 THEN st
    ELSE LET ref == Head(snap).Ref
             old == IF Exists(st, ref) THEN st[ref] ELSE [f \in Fields |-> Missing]
         IN  BatchSet(Put(st, ref, [old EXCEPT ![field] = StrV(value)]),
                      Tail(snap), field, value)

\* StorageSyncList without the return on an empty snapshot
StorageSyncList_AlwaysCommits(st, filters, field, value, fail) ==
    LET query == filter(BaseQuery, filters)
        snap  == Documents(st, query, fail = "documents")
    IN  Outcome(Return(NoError),
                IF fail = "commit" THEN st ELSE BatchSet(st, snap, field, value),
                <<"documents", "commit">>)

StorageSyncList(st, filters, field, value, fail) ==
    LET query == filter(BaseQuery, filters)
        snap  == Documents(st, query, fail = "documents")
    IN  IF Len(snap) = 0
        THEN Outcome(Return(NoError), st, <<"documents">>)
        ELSE Outcome(Return(NoError),
                     IF fail = "commit" THEN st ELSE BatchSet(st, snap, field, value),
                     <<"documents", "commit">>)

StorageDelete(st, entity, fail) ==
    IF fail \in BackendErrors
    THEN Outcome(Return(fail), st, <<"delete">>)
    ELSE Outcome(Return(NoError), Remove(st, DocId(entity)), <<"delete">>)

\* PageQuery with the offset taken as the page number
PageQuery_OffsetIsPage(query, payload) ==
    LET q1 == order(query, payload.Orders)
        q2 == IF payload.PageSize > 0 THEN Limit(q1, payload.PageSize) ELSE q1
    IN  IF payload.Page > 0 THEN Offset(q2, payload.Page) ELSE q2

\* order, limit and offset of StorageList
PageQuery(query, payload) ==
    LET q1 == order(query, payload.Orders)
        q2 == IF payload.PageSize > 0 THEN Limit(q1, payload.PageSize) ELSE q1
    IN  IF payload.Page > 0 THEN Offset(q2, payload.Page * payload.PageSize) ELSE q2

\* ListPage with the count taken from the decoded page
ListPage_CountOfData(st, query, payload, cnt, fail) ==
    LET snap == Documents(st, PageQuery(query, payload), fail = "documents")
    IN  Outcome(Return([Count |-> Len(DecodeAll(snap)), Data |-> DecodeAll(snap)]), st,
                <<"aggregate", "documents">>)

\* StorageList after the count was found positive: fetch and decode the page
ListPage(st, query, payload, cnt, fail) ==
    LET snap == Documents(st, PageQuery(query, payload), fail = "documents")
    IN  Outcome(Return([Count |-> cnt, Data |-> DecodeAll(snap)]), st,
                <<"aggregate", "documents">>)

\* StorageList without the return on a zero count
StorageList_NoShortCircuit(st, payload, fail) ==
    LET query == filter(BaseQuery, payload.Filters)
        cnt   == count(st, query, fail = "aggregate")
    IN  IF cnt.kind = "panic" THEN Outcome(Panic, st, <<"aggregate">>)
        ELSE ListPage(st, query, payload, cnt.val, fail)

StorageList(st, payload, fail) ==
    LET query == filter(BaseQuery, payload.Filters)
        cnt   == count(st, query, fail = "aggregate")
    IN  IF cnt.kind = "panic" THEN Outcome(Panic, st, <<"aggregate">>)
        ELSE IF cnt.val = 0
        THEN Outcome(Return([Count |-> 0, Data |-> <<>>]), st, <<"aggregate">>)
        ELSE ListPage(st, query, payload, cnt.val, fail)

StorageSum(st, filters, field, fail) ==
    LET query == filter(BaseQuery, filters)
        snap  == Documents(st, query, fail = "documents")
    IN  IF Len(snap) = 0
        THEN Outcome(Return(0), st, <<"documents">>)
        ELSE Outcome(Return(SumLoop(snap, field, 0)), st, <<"documents">>)

(***************************************************************************)
(* The state machine: one caller, one call at a time                       *)
(***************************************************************************)
NoOp == [name |-> "none"]

\* the storage layer after NewFireStore, before any call
InitStorage ==
    /\ store = EmptyStore
    /\ pc = "idle"
    /\ op = NoOp
    /\ res = Return(NoError)
    /\ calls = <<>>

\* no server started: no route table, no request
Init ==
    /\ InitStorage
    /\ routes = [arr |-> 0, len |-> 0]
    /\ arrays = <<>>
    /\ reqs = <<>>
    /\ served = 0

Finish(o, out) ==
    /\ pc' = "done"
    /\ op' = o
    /\ res' = out.res
    /\ store' = out.store
    /\ calls' = out.calls
    /\ UNCHANGED serverVars

\* StorageNewId: an identifier no document of the collection has
NewId ==
    /\ pc = "idle"
    /\ \E id \in DocIds :
          /\ ~Exists(store, id)
          /\ Finish([name |-> "NewId"], Outcome(Return(id), store, <<>>))

Get ==
    /\ pc = "idle"
    /\ \E id \in DocIds, fail \in {"", "get"} :
          \E out \in StorageGet(store, id, fail) :
              Finish([name |-> "Get", id |-> id, fail |-> fail], out)

Count ==
    /\ pc = "idle"
    /\ \E filters \in FilterLists, fail \in {"", "aggregate"} :
          Finish([name |-> "Count", filters |-> filters, fail |-> fail],
                 StorageCount(store, filters, fail))

Sync ==
    /\ pc = "idle"
    /\ \E entity \in Entities, fail \in {""} \cup BackendErrors :
          Finish([name |-> "Sync", entity |-> entity, fail |-> fail],
                 StorageSync(store, entity, fail))

SyncList ==
    /\ pc = "idle"
    /\ \E filters \in FilterLists, field \in SyncFields, value \in SyncValues,
          fail \in {"", "documents", "commit"} :
          Finish([name |-> "SyncList", filters |-> filters, field |-> field,
                  value |-> value, fail |-> fail],
                 StorageSyncList(store, filters, field, value, fail))

Delete ==
    /\ pc = "idle"
    /\ \E id \in DocIds, fail \in {""} \cup BackendErrors :
          Finish([name |-> "Delete", id |-> id, fail |-> fail],
                 StorageDelete(store, [ZeroT EXCEPT !.Id = id], fail))

List ==
    /\ pc = "idle"
    /\ \E payload \in Payloads, fail \in {"", "aggregate", "documents"} :
          Finish([name |-> "List", payload |-> payload, fail |-> fail],
                 StorageList(store, payload, fail))

Sum ==
    /\ pc = "idle"
    /\ \E filters \in FilterLists, field \in SumFields, fail \in {"", "documents"} :
          Finish([name |-> "Sum", filters |-> filters, field |-> field, fail |-> fail],
                 StorageSum(store, filters, field, fail))

\* the caller takes the result and is ready for its next call
Ack ==
    /\ pc = "done"
    /\ pc' = "idle"
    /\ op' = NoOp
    /\ res' = Return(NoError)
    /\ calls' = <<>>
    /\ UNCHANGED store
    /\ UNCHANGED serverVars

\* filter on its own
CallFilter ==
    /\ pc = "idle"
    /\ \E filters \in FilterInputs :
          Finish([name |-> "filter", filters |-> filters],
                 Outcome(Return(filter(BaseQuery, filters)), store, <<>>))

\* searchify on its own
CallSearchify ==
    /\ pc = "idle"
    /\ \E terms \in TermLists :
          Finish([name |-> "searchify", terms |-> terms],
                 Outcome(Return(searchify(terms)), store, <<>>))

Next == NewId \/ Get \/ Count \/ Sync \/ SyncList \/ Delete \/ List \/ Sum \/ Ack

Spec == Init /\ [][Next]_vars

NextFilter == CallFilter \/ Ack

SpecFilter == Init /\ [][NextFilter]_vars

NextSearchify == CallSearchify \/ Ack

SpecSearchify == Init /\ [][NextSearchify]_vars


(***************************************************************************)
(* Properties                                                              *)
(***************************************************************************)
Called(name) == pc = "done" /\ op.name = name

\* the value of a filter coerces for its declared type
Coerces(f) ==
    CASE f.Type = BOOLEAN_T -> ParseBool(f.Value).ok
      [] f.Type = NUMBER_T  -> ParseFloat(f.Value).ok
      [] f.Type = DATE_T    -> ParseDate(f.Value).ok
      [] OTHER -> TRUE

\* the value a filter is applied with
CoercedValue(f) ==
    CASE f.Type = BOOLEAN_T -> BoolV(ParseBool(f.Value).v)
      [] f.Type = NUMBER_T  -> NumV(ParseFloat(f.Value).v)
      [] f.Type = DATE_T    -> TimeV(ParseDate(f.Value).v)
      [] OTHER -> StrV(f.Value)

RemoveAt(q, i) == SubSeq(q, 1, i - 1) \o SubSeq(q, i + 1, Len(q))

\* C4: a filter whose value fails coercion is not applied: the query is the
\* one built from the list without that filter; the other filters are applied
\* in order, those of type string or of an unrecognised type with the raw
\* string value; nothing else of the query changes.
C4_FailedCoercionDropsFilter ==
    Called("filter") =>
        LET fs   == op.filters
            q    == res.val
            kept == SelectSeq(fs, Coerces)
        IN  /\ res.kind = "return"
            /\ \A i \in DOMAIN fs :
                  ~Coerces(fs[i]) => q = filter(BaseQuery, RemoveAt(fs, i))
            /\ Len(q.wheres) = Len(kept)
            /\ \A k \in DOMAIN kept :
                  /\ q.wheres[k].Field = kept[k].Field
                  /\ q.wheres[k].Op = kept[k].Operator
                  /\ q.wheres[k].Val = CoercedValue(kept[k])
                  /\ kept[k].Type \notin {BOOLEAN_T, NUMBER_T, DATE_T}
                        => q.wheres[k].Val = StrV(kept[k].Value)
            /\ q.orders = <<>> /\ q.limit = BaseQuery.limit /\ q.offset = BaseQuery.offset

\* a list whose first filter fails coercion and whose second one is applied
C4_Witness ==
    /\ Called("filter")
    /\ Len(op.filters) = 2
    /\ ~Coerces(op.filters[1])
    /\ op.filters[1].Type = NUMBER_T
    /\ Coerces(op.filters[2])
    /\ Len(res.val.wheres) = 1

\* the number of substrings searchify lists before those of length len, for a
\* term of n code points
WindowsBefore(n, len) ==
    IF len <= 2 THEN 0
    ELSE (len - 2) * (n + 1) - (((len - 1) * len) \div 2 - 1)

\* what one term contributes: itself and its substrings of length 2..n-1
BlockLen(t) == IF Len(t) = 0 THEN 0 ELSE 1 + WindowsBefore(Len(t), Len(t))

RECURSIVE BlockStart(_, _)
BlockStart(ts, j) == IF j <= 1 THEN 0 ELSE BlockStart(ts, j - 1) + BlockLen(ts[j - 1])

\* C5: searchify returns, for each non-empty term in input order, the
\* lower-cased term followed by each of its contiguous substrings of length
\* >= 2 and < the term's length, and nothing else; ["Ab"] gives ["ab"] and
\* ["Abcd"] gives exactly abcd, ab, bc, cd, abc, bcd.
C5_SearchifySubstrings ==
    Called("searchify") =>
        LET ts == op.terms
            r  == res.val
        IN  /\ Len(r) = BlockStart(ts, Len(ts) + 1)
            /\ \A j \in DOMAIN ts :
                  LET low == ToLower(ts[j])
                      n   == Len(low)
                      b   == BlockStart(ts, j)
                  IN  n > 0 =>
                        /\ r[b + 1] = low
                        /\ \A len \in 2..(n - 1) : \A start \in 0..(n - len) :
                              r[b + 1 + WindowsBefore(n, len) + start + 1]
                                  = SubSeq(low, start + 1, start + len)
            /\ ts = << <<"A", "b">> >> => r = << <<"a", "b">> >>
            /\ ts = << <<"A", "b", "c", "d">> >> =>
                  /\ Len(r) = 6
                  /\ Range(r) = { <<"a", "b", "c", "d">>, <<"a", "b">>, <<"b", "c">>,
                                  <<"c", "d">>, <<"a", "b", "c">>, <<"b", "c", "d">> }

\* an empty term and a term with upper-case letters that has substrings
C5_Witness ==
    /\ Called("searchify")
    /\ Len(op.terms) = 2
    /\ op.terms[1] = <<>>
    /\ op.terms[2] = <<"A", "b", "A">>
    /\ res.val = << <<"a", "b", "a">>, <<"a", "b">>, <<"b", "a">> >>


\* a document satisfies every filter of the list that is applied
Satisfies(doc, fs) ==
    \A k \in DOMAIN fs :
        Coerces(fs[k]) =>
            Matches(FieldOf(doc, fs[k].Field), fs[k].Operator, CoercedValue(fs[k]))

MatchingIds(st, fs) == {i \in DOMAIN st : Satisfies(st[i], fs)}

\* the filtered, ordered match sequence of the backend
MatchSequence(st, fs, os) ==
    SortIds(st, os, {i \in MatchingIds(st, fs) : HasOrderFields(st[i], os)})

\* a document decodes into T, and the entity it decodes into
Decodable(doc) == doc.Id.t = "str" /\ doc.Name.t = "str" /\ doc.N.t = "num" /\ doc.Raw.t = "arr"

EntityOf(doc) == [Id |-> doc.Id.v, Name |-> doc.Name.v, N |-> doc.N.v, Raw |-> doc.Raw.v]

Min(a, b) == IF a < b THEN a ELSE b

\* the positions (1-based, as a pair first..last) of the page a payload asks
\* for in a match sequence of n documents
PageFirst(p) == IF p.Page > 0 THEN p.Page * p.PageSize + 1 ELSE 1

PageLast(p, n) == IF p.PageSize > 0 THEN Min(PageFirst(p) - 1 + p.PageSize, n) ELSE n

\* C1: the Count StorageList returns is the number of documents of the
\* collection that satisfy all applied filters, whatever the orders, the page
\* and the page size, and whatever documents are dropped from Data.
C1_CountIsFilteredTotal ==
    (Called("List") /\ res.kind = "return") =>
        res.val.Count = Cardinality(MatchingIds(store, op.payload.Filters))

\* a limited, ordered page that lost a document to a decoding failure
C1_Witness ==
    /\ Called("List")
    /\ res.kind = "return"
    /\ op.fail = ""
    /\ op.payload.Orders # <<>>
    /\ op.payload.PageSize = 2
    /\ op.payload.Page = 0
    /\ res.val.Count = 3
    /\ Len(res.val.Data) = 1

\* C2: a backend failure on a read or aggregate path is absorbed: the
\* operation returns an ordinary value and never panics.
C2_ReadFailuresAbsorbed ==
    (pc = "done" /\ op.name \in {"List", "Count", "Sum", "Get"} /\ op.fail # "") =>
        /\ res.kind = "return"
        /\ op.name = "List" /\ op.fail = "aggregate" => res.val = [Count |-> 0, Data |-> <<>>]
        /\ op.name = "List" /\ op.fail = "documents" => res.val.Data = <<>>
        /\ op.name = "Count" => res.val = 0
        /\ op.name = "Sum" => res.val = 0
        /\ op.name = "Get" => res.val = ZeroT

\* C3 as stated: with pageSize > 0 and page > 0, Data is exactly the documents
\* at the 0-indexed positions page*pageSize .. page*pageSize+pageSize-1 of the
\* match sequence (fewer if the sequence ends earlier).
C3_PageIsExactSlice ==
    (Called("List") /\ res.kind = "return" /\ op.fail = ""
        /\ op.payload.Page > 0 /\ op.payload.PageSize > 0) =>
        LET p    == op.payload
            all  == MatchSequence(store, p.Filters, p.Orders)
            page == SubSeq(all, PageFirst(p), PageLast(p, Len(all)))
            data == res.val.Data
        IN  /\ Len(data) = Len(page)
            /\ \A k \in DOMAIN page : data[k].Id = page[k]

\* C3, amended: when the page fetch succeeds, Data is, in order, those of the
\* documents at these positions that decode into T; with page = 0 the
\* positions start at 0 (no offset) and with pageSize <= 0 they run to the end
\* of the match sequence (no limit).
C3_PageIsDecodableSlice ==
    (Called("List") /\ res.kind = "return" /\ op.fail = ""
        /\ (op.payload.Page = 0 \/ op.payload.PageSize >= 0)) =>
        LET p    == op.payload
            all  == MatchSequence(store, p.Filters, p.Orders)
            page == SubSeq(all, PageFirst(p), PageLast(p, Len(all)))
            good == SelectSeq(page, LAMBDA i : Decodable(store[i]))
        IN  res.val.Data = [k \in DOMAIN good |-> EntityOf(store[good[k]])]

\* the second page of two: the third result, with an undecodable document in
\* the collection
C3_Witness ==
    /\ Called("List")
    /\ res.kind = "return"
    /\ op.fail = ""
    /\ op.payload.Page = 1
    /\ op.payload.PageSize = 2
    /\ op.payload.Orders # <<>>
    /\ res.val.Count = 3
    /\ Len(res.val.Data) = 1
    /\ \E i \in DOMAIN store : ~Decodable(store[i])

\* C6: StorageList with filters that match no document returns
\* {Count: 0, Data: []} after the count query alone.
C6_EmptyMatchShortCircuits ==
    (Called("List") /\ res.kind = "return"
        /\ MatchingIds(store, op.payload.Filters) = {}) =>
        /\ res.val = [Count |-> 0, Data |-> <<>>]
        /\ calls = <<"aggregate">>

\* documents exist, none matches, and the payload asks for order and paging
C6_Witness ==
    /\ Called("List")
    /\ res.kind = "return"
    /\ DOMAIN store # {}
    /\ MatchingIds(store, op.payload.Filters) = {}
    /\ op.payload.Orders # <<>>
    /\ op.payload.PageSize > 0
    /\ op.payload.Page > 0


\* what a field value adds to a sum: a number adds itself, a string that
\* reads as a number adds that number, anything else and a missing field add 0
NumericValue(v) ==
    CASE v.t = "num" -> v.v
      [] v.t = "str" -> IF ParseFloat(v.v).ok THEN ParseFloat(v.v).v ELSE 0
      [] OTHER -> 0

RECURSIVE SumOver(_, _, _)
SumOver(ids, st, field) ==
    IF ids = {} THEN 0
    ELSE LET i == CHOOSE x \in ids : TRUE
         IN  NumericValue(FieldOf(st[i], field)) + SumOver(ids \ {i}, st, field)

\* C7: StorageSum returns the sum of the field over the matching documents
\* whose value is numeric; a missing or non-numeric value adds 0 and raises
\* nothing; the result is 0 when no document matches.
C7_SumOfNumericValues ==
    Called("Sum") =>
        /\ res.kind = "return"
        /\ op.fail = "" =>
              res.val = SumOver(MatchingIds(store, op.filters), store, op.field)
        /\ MatchingIds(store, op.filters) = {} => res.val = 0

\* three matching documents, one of them with a non-numeric value
C7_Witness ==
    /\ Called("Sum")
    /\ op.fail = ""
    /\ op.field = "N"
    /\ Cardinality(MatchingIds(store, op.filters)) = 3
    /\ \E i \in DOMAIN store : ValEq(store[i].N, StrV(<<"z">>))
    /\ \E i \in DOMAIN store : ValEq(store[i].N, NumV(2))
    /\ res.val = 3

\* C8: StorageGet returns the zero value of T when the document does not
\* exist (as for an identifier StorageNewId gave, which no document has)
\* and when the document fails to decode; it returns a non-zero entity only
\* for a document found and decoded completely.
C8_GetZeroUnlessDecoded ==
    Called("Get") =>
        LET found   == Exists(store, op.id) /\ op.fail = ""
            decoded == found /\ Decodable(store[op.id])
        IN  /\ res.kind = "return"
            /\ ~decoded => res.val = ZeroT
            /\ res.val # ZeroT => decoded /\ res.val = EntityOf(store[op.id])

\* C9: StorageSyncList with filters that match no document makes no batch
\* commit call and leaves the collection as it was.
C9_NoMatchNoCommit ==
    [][(pc = "idle" /\ pc' = "done" /\ op'.name = "SyncList"
            /\ MatchingIds(store, op'.filters) = {})
        => (store' = store /\ calls' = <<"documents">>)]_vars

\* documents exist, the fetch succeeds and none matches
C9_Witness ==
    /\ Called("SyncList")
    /\ op.fail = ""
    /\ DOMAIN store # {}
    /\ MatchingIds(store, op.filters) = {}
    /\ calls = <<"documents">>

\* C10: a successful StorageSync leaves at the entity's identifier the full
\* entity with Raw = searchify(entity.Searchify()), whatever Raw the caller
\* gave and whatever was stored before, and touches no other document; a
\* failed write returns the backend's error unchanged.
C10_SyncStoresIndexedEntity ==
    [][(pc = "idle" /\ pc' = "done" /\ op'.name = "Sync") =>
        LET e == op'.entity
        IN  IF op'.fail = ""
            THEN /\ res' = Return(NoError)
                 /\ DOMAIN store' = DOMAIN store \cup {e.Id}
                 /\ store'[e.Id] = [Id |-> StrV(e.Id), Name |-> StrV(e.Name),
                                    N |-> NumV(e.N),
                                    Raw |-> ArrV(searchify(<<e.Name>>))]
                 /\ e.Name = <<"A", "b", "c">> =>
                       store'[e.Id].Raw.v = << <<"a", "b", "c">>, <<"a", "b">>, <<"b", "c">> >>
                 /\ \A i \in DOMAIN store \ {e.Id} : store'[i] = store[i]
            ELSE res' = Return(op'.fail)]_vars

\* a successful sync of an entity that came with a Raw of its own
C10_Witness ==
    /\ Called("Sync")
    /\ op.fail = ""
    /\ res = Return(NoError)
    /\ op.entity.Raw = << <<"z", "z">> >>
    /\ store[op.entity.Id].Raw.v = << <<"a", "b", "c">>, <<"a", "b">>, <<"b", "c">> >>
    /\ ValEq(store[op.entity.Id].N, NumV(op.entity.N))


(***************************************************************************)
(* Interleaved callers.  StorageSyncList and StorageList make two backend  *)
(* calls each and hold no lock and no transaction between them, so the     *)
(* StorageSync and StorageDelete calls of other callers can land between   *)
(* the two.  The caller's frame (its locals after the first call) is kept  *)
(* in op; pc tells how far the call has come.                              *)
(***************************************************************************)
RaceIds == {IdStr(1), IdStr(2)}

RaceEntities == {e \in Entities : e.Id \in RaceIds /\ e.Raw = <<>>}

InFlight == {"fetched", "counted"}

\* lines 682-692 of StorageSyncList: build the query, fetch the snapshots,
\* return when there are none
SyncListFetch ==
    /\ pc = "idle"
    /\ \E filters \in FilterLists, field \in SyncFields, value \in SyncValues :
          LET query == filter(BaseQuery, filters)
              snap  == Documents(store, query, FALSE)
              o     == [name |-> "SyncList", filters |-> filters, field |-> field,
                        value |-> value, fail |-> "", snap |-> snap]
          IN  IF Len(snap) = 0
              THEN Finish(o, Outcome(Return(NoError), store, <<"documents">>))
              ELSE /\ pc' = "fetched"
                   /\ op' = o
                   /\ calls' = <<"documents">>
                   /\ UNCHANGED <<store, res>>
                   /\ UNCHANGED serverVars

\* lines 694-705 of StorageSyncList: one merge-set per fetched snapshot, by
\* its reference, and the commit of the batch
SyncListCommit ==
    /\ pc = "fetched"
    /\ Finish(op, Outcome(Return(NoError),
                          BatchSet(store, op.snap, op.field, op.value),
                          <<"documents", "commit">>))

\* lines 717-731 of StorageList: build the query, count, return on zero
ListCount ==
    /\ pc = "idle"
    /\ \E payload \in Payloads :
          LET query == filter(BaseQuery, payload.Filters)
              cnt   == count(store, query, FALSE)
              o     == [name |-> "List", payload |-> payload, fail |-> "",
                        count |-> cnt.val]
          IN  IF cnt.val = 0
              THEN Finish(o, Outcome(Return([Count |-> 0, Data |-> <<>>]), store,
                                     <<"aggregate">>))
              ELSE /\ pc' = "counted"
                   /\ op' = o
                   /\ calls' = <<"aggregate">>
                   /\ UNCHANGED <<store, res>>
                   /\ UNCHANGED serverVars

\* lines 733-758 of StorageList: order, limit, offset, fetch and decode
ListFetch ==
    /\ pc = "counted"
    /\ Finish(op, ListPage(store, filter(BaseQuery, op.payload.Filters),
                           op.payload, op.count, ""))

\* another caller's StorageSync, at any point of this caller's call
OtherSync ==
    /\ pc \in {"idle"} \cup InFlight
    /\ \E entity \in RaceEntities :
          store' = StorageSync(store, entity, "").store
    /\ UNCHANGED <<pc, op, res, calls>>
    /\ UNCHANGED serverVars

\* another caller's StorageDelete, at any point of this caller's call
OtherDelete ==
    /\ pc \in {"idle"} \cup InFlight
    /\ \E id \in RaceIds :
          /\ Exists(store, id)
          /\ store' = StorageDelete(store, [ZeroT EXCEPT !.Id = id], "").store
    /\ UNCHANGED <<pc, op, res, calls>>
    /\ UNCHANGED serverVars

NextInterleaved ==
    SyncListFetch \/ SyncListCommit \/ ListCount \/ ListFetch
        \/ OtherSync \/ OtherDelete \/ Ack

SpecInterleaved == Init /\ [][NextInterleaved]_vars

\* two documents are the same, field by field
DocEq(a, b) == \A f \in Fields : ValEq(a[f], b[f])

\* C11: StorageSyncList changes nothing in the store except setting the field
\* to the value on documents that match the filters: every other field of
\* those documents and every other document stays as it was, and no document
\* is created or deleted, whatever StorageSync and StorageDelete calls of
\* other callers landed between its fetch and its commit.
C11_SyncListOnlySetsField ==
    [][(pc \in {"idle", "fetched"} /\ pc' = "done" /\ op'.name = "SyncList") =>
        LET fetched == IF "snap" \in DOMAIN op'
                       THEN {op'.snap[k].Ref : k \in DOMAIN op'.snap}
                       ELSE {}
        IN  /\ DOMAIN store' = DOMAIN store
            /\ \A i \in DOMAIN store :
                  \/ DocEq(store'[i], store[i])
                  \/ /\ i \in fetched \cup MatchingIds(store, op'.filters)
                     /\ DocEq(store'[i],
                              [store[i] EXCEPT ![op'.field] = StrV(op'.value)])]_vars

\* C12: in every ResultList StorageList returns, len(Data) <= Count, and
\* len(Data) <= pageSize when pageSize > 0, whatever StorageSync and
\* StorageDelete calls of other callers landed between the count query and
\* the page fetch.
C12_DataWithinCount ==
    (Called("List") /\ res.kind = "return") =>
        /\ Len(res.val.Data) <= res.val.Count
        /\ op.payload.PageSize > 0 => Len(res.val.Data) <= op.payload.PageSize


(***************************************************************************)
(* The HTTP server: the handler makeHandler returns.  net/http runs it in  *)
(* one goroutine per request, and all of them share the variable routes of *)
(* the closure.  A slice is a header (backing array, length) over an array *)
(* of fixed capacity; arrays holds the backing arrays by number.  Each     *)
(* statement that touches routes is one step.  Patterns are literal paths, *)
(* so the compiled "^pattern$" matches the path equal to the pattern.      *)
(***************************************************************************)
LIST == "LIST"
POST == "POST"
GET == "GET"
OPTIONS == "OPTIONS"

Route(method, pattern, handler) ==
    [method |-> method, regex |-> pattern, handler |-> handler]

NoRoute == Route("", "", "")

\* the route tables NewServer is started with, as slice literals
RouteTables ==
    { <<Route(LIST, "/a", "listA")>>,
      <<Route(GET, "/b", "getB"), Route(LIST, "/a", "listA")>>,
      <<Route(LIST, "/a", "listA"), Route(LIST, "/c", "listC")>> }

\* handlers of the routes registered with method LIST
ListHandlers == {"listA", "listC"}

AllowedHosts == {"http://app"}

Origins == {"http://app", "http://other"}

RequestMethods == {GET, POST, OPTIONS}

RequestPaths == {"/a", "/c", "/x"}

Goroutines == {1, 2}

\* regex.FindStringSubmatch(path) finds a match
FindStringSubmatch(regex, path) == regex = path

contains(hosts, str) == str \in hosts

Status(code) == [status |-> code, handler |-> ""]

\* route.handler(w, r): the response is the handler's
Handled(handler) == [status |-> "handler", handler |-> handler]

NoResponse == Status("")

IdleFrame ==
    [pc |-> "idle", method |-> "", path |-> "", origin |-> "", i |-> 0,
     rng |-> [arr |-> 0, len |-> 0], route |-> NoRoute, resp |-> NoResponse]

\* the elements a slice header gives access to
Slice(arrs, h) == IF h.arr = 0 THEN <<>> ELSE SubSeq(arrs[h.arr].elems, 1, h.len)

\* append(routes, route): in place while the capacity lasts, else into a new
\* array of twice the capacity; the arrays and the header afterwards
append(arrs, h, route) ==
    LET a == arrs[h.arr]
    IN  IF h.len < a.cap
        THEN [arrays |-> [arrs EXCEPT ![h.arr].elems =
                                          Append(SubSeq(a.elems, 1, h.len), route)],
              header |-> [arr |-> h.arr, len |-> h.len + 1]]
        ELSE [arrays |-> Append(arrs, [cap |-> 2 * a.cap,
                                       elems |-> Append(SubSeq(a.elems, 1, h.len), route)]),
              header |-> [arr |-> Len(arrs) + 1, len |-> h.len + 1]]

\* lines 111-149: the first route whose pattern and method match serves the
\* request; OPTIONS is answered at the first pattern match
RECURSIVE Dispatch(_, _, _, _)
Dispatch(table, method, path, allow) ==
    IF Len(table) = 0
    THEN IF Len(allow) > 0 THEN Status("405") ELSE Status("404")
    ELSE LET route == Head(table)
         IN  IF FindStringSubmatch(route.regex, path)
             THEN IF method = OPTIONS THEN Status("204")
                  ELSE IF method # route.method
                  THEN Dispatch(Tail(table), method, path, Append(allow, route.method))
                  ELSE Handled(route.handler)
             ELSE Dispatch(Tail(table), method, path, allow)

Frame(g, f) == reqs' = [reqs EXCEPT ![g] = f]

\* NewServer: the handler is made over the table and the server listens
InitServer ==
    /\ InitStorage
    /\ \E table \in RouteTables :
          /\ arrays = <<[cap |-> Len(table), elems |-> table]>>
          /\ routes = [arr |-> 1, len |-> Len(table)]
    /\ reqs = [g \in Goroutines |-> IdleFrame]
    /\ served = 0

\* a request arrives and its goroutine starts the handler
Arrive(g) ==
    /\ reqs[g].pc = "idle"
    /\ served < MaxRequests
    /\ \E method \in RequestMethods, path \in RequestPaths, origin \in Origins :
          Frame(g, [IdleFrame EXCEPT !.pc = "origin", !.method = method,
                                     !.path = path, !.origin = origin])
    /\ served' = served + 1
    /\ UNCHANGED <<routes, arrays, storageVars>>

\* lines 95-103: the origin check, then the range expression of the first
\* loop is evaluated once
CheckOrigin(g) ==
    /\ reqs[g].pc = "origin"
    /\ IF ~contains(AllowedHosts, reqs[g].origin)
       THEN Frame(g, [reqs[g] EXCEPT !.pc = "responded", !.resp = Status("403")])
       ELSE Frame(g, [reqs[g] EXCEPT !.pc = "range", !.rng = routes, !.i = 0])
    /\ UNCHANGED <<routes, arrays, served, storageVars>>

\* lines 103-104: route is a copy of the next element of the array the loop
\* ranges over
RangeStep(g) ==
    /\ reqs[g].pc = "range"
    /\ LET f == reqs[g]
       IN  IF f.i >= f.rng.len
           THEN Frame(g, [f EXCEPT !.pc = "dispatch", !.route = NoRoute])
           ELSE LET route == arrays[f.rng.arr].elems[f.i + 1]
                IN  IF route.method = LIST
                    THEN Frame(g, [f EXCEPT !.pc = "set", !.route = route])
                    ELSE Frame(g, [f EXCEPT !.i = f.i + 1, !.route = NoRoute])
    /\ UNCHANGED <<routes, arrays, served, storageVars>>

\* line 105: routes[i].method = GET, through the shared variable
SetGet(g) ==
    /\ reqs[g].pc = "set"
    /\ arrays' = [arrays EXCEPT ![routes.arr].elems[reqs[g].i + 1].method = GET]
    /\ Frame(g, [reqs[g] EXCEPT !.pc = "append"])
    /\ UNCHANGED <<routes, served, storageVars>>

\* lines 106-107: route.method = POST; routes = append(routes, route)
AppendPost(g) ==
    /\ reqs[g].pc = "append"
    /\ LET f   == reqs[g]
           out == append(arrays, routes, [f.route EXCEPT !.method = POST])
       IN  /\ arrays' = out.arrays
           /\ routes' = out.header
           /\ Frame(g, [f EXCEPT !.pc = "range", !.i = f.i + 1, !.route = NoRoute])
    /\ UNCHANGED <<served, storageVars>>

\* lines 111-150: the second loop and the response
Serve(g) ==
    /\ reqs[g].pc = "dispatch"
    /\ LET f == reqs[g]
       IN  Frame(g, [f EXCEPT !.pc = "responded",
                              !.resp = Dispatch(Slice(arrays, routes), f.method,
                                                f.path, <<>>)])
    /\ UNCHANGED <<routes, arrays, served, storageVars>>

\* the response is sent and the goroutine ends
Retire(g) ==
    /\ reqs[g].pc = "responded"
    /\ Frame(g, IdleFrame)
    /\ UNCHANGED <<routes, arrays, served, storageVars>>

NextServer ==
    \E g \in Goroutines :
        \/ Arrive(g)
        \/ CheckOrigin(g)
        \/ RangeStep(g)
        \/ SetGet(g)
        \/ AppendPost(g)
        \/ Serve(g)
        \/ Retire(g)

SpecServer == InitServer /\ [][NextServer]_vars

\* the route table as requests see it
Table == Slice(arrays, routes)

Entries(method, handler) ==
    {k \in DOMAIN Table : Table[k].method = method /\ Table[k].handler = handler}

\* the LIST routes of the table the server was started with
Registered == {h \in ListHandlers : \E k \in DOMAIN Table : Table[k].handler = h}

PatternOf(h) == Table[CHOOSE k \in DOMAIN Table : Table[k].handler = h].regex

\* no request is inside the handler
Quiescent == \A g \in Goroutines : reqs[g].pc \in {"idle", "responded"}

\* C13: a route registered with method LIST is served for GET and for POST:
\* under every sequence and interleaving of requests, a GET or POST request
\* with an allowed Origin whose path matches a LIST route gets that route's
\* handler, never 405 or 404; and once a request has passed the handler and
\* none is inside it, the table holds exactly one GET and one POST entry per
\* LIST route.
C13_ListServedForGetAndPost ==
    /\ \A g \in Goroutines : \A h \in Registered :
          (/\ reqs[g].pc = "responded"
           /\ contains(AllowedHosts, reqs[g].origin)
           /\ reqs[g].method \in {GET, POST}
           /\ FindStringSubmatch(PatternOf(h), reqs[g].path))
              => reqs[g].resp = Handled(h)
    /\ (/\ Quiescent
        /\ \E g \in Goroutines : reqs[g].pc = "responded" /\ reqs[g].resp # Status("403"))
          => \A h \in Registered :
                /\ Cardinality(Entries(GET, h)) = 1
                /\ Cardinality(Entries(POST, h)) = 1
                /\ Entries(LIST, h) = {}

=============================================================================
